---- MODULE Spec2Model ----
(***************************************************************************)
(* The batch pipeline of rednote-capture: the QueueManager read-modify-    *)
(* write operations over chrome.storage.session, BatchProcessor.processQueue*)
(* with its per-item retry loop, the PROCESS_QUEUE handler, and the retry  *)
(* loop of uploadToDrive.                                                  *)
(*                                                                         *)
(* Every `await` of the source is a scheduling point: the synchronous code *)
(* between two awaits is one atomic action.  A storage get and the storage *)
(* set that follows it are two actions, so other operations may interleave *)
(* between them.  Messages are sequences of string tokens, so that         *)
(* String.includes is a test the model can get wrong.                      *)
(***************************************************************************)
EXTENDS Integers, Sequences, FiniteSets

\* ------------------------------------------------------------------ bounds
MaxIds == 2            \* crypto.randomUUID() values drawn in one behaviour
MaxRetries == 2        \* largest maxRetries option passed to processQueue
MaxRetryCount == 1     \* largest retryCount retryFailedItems produces
MaxFaults == 1         \* chrome.storage.session calls that reject in one behaviour
MaxUploadRetries == 3  \* largest maxRetries option passed to uploadToDrive

\* ------------------------------------------------------- program constants
DefaultUploadMaxRetries == 3   \* uploadToDrive: maxRetries = 3
HandlerMaxRetries == 2         \* handleProcessQueue: maxRetries: 2

\* --------------------------------------------------------------- universes
Posts == {"p1", "p2"}                \* CapturedPost.id values
Runs == {1, 2}                        \* concurrent processQueue invocations
Statuses == {"pending", "processing", "completed", "failed"}

Null == <<"#null">>                   \* JavaScript null, where a message may stand
Undefined == <<"#undefined">>         \* JavaScript undefined
NonError == <<"#nonerror">>           \* a thrown value that is not an Error
NullTime == 0                         \* startedAt: null
NoTitle == "#null"                    \* currentItem: null

\* --------------------------------------------------------------- messages
\* message.includes(tok) at token granularity
Includes(msg, tok) == \E i \in DOMAIN msg : msg[i] = tok

\* error instanceof Error ? error.message : 'Unknown error'
ErrorMessage(thrown) == IF thrown = NonError THEN <<"Unknown error">> ELSE thrown

\* JavaScript truthiness of an optional string
Truthy(msg) == msg # <<>> /\ msg # Undefined /\ msg # Null

\* ------------------------------------------------------------ queue values
CountStatus(items, s) == Cardinality({i \in DOMAIN items : items[i].status = s})

createEmptyQueue ==
    [items |-> <<>>, totalItems |-> 0, pendingItems |-> 0, processingItems |-> 0,
     completedItems |-> 0, failedItems |-> 0]

createQueueItem(post, uuid, now) ==
    [id |-> uuid, postId |-> post, status |-> "pending", addedAt |-> now,
     startedAt |-> NullTime, result |-> {}, error |-> Null, retryCount |-> 0]

\* recalculateTotals with the failed count left as it was
recalculateTotalsNoFailed(queue) ==
    [queue EXCEPT !.totalItems = Len(queue.items),
                  !.pendingItems = CountStatus(queue.items, "pending"),
                  !.processingItems = CountStatus(queue.items, "processing"),
                  !.completedItems = CountStatus(queue.items, "completed")]

recalculateTotals(queue) ==
    [queue EXCEPT !.totalItems = Len(queue.items),
                  !.pendingItems = CountStatus(queue.items, "pending"),
                  !.processingItems = CountStatus(queue.items, "processing"),
                  !.completedItems = CountStatus(queue.items, "completed"),
                  !.failedItems = CountStatus(queue.items, "failed")]

\* a status function that reports a settled queue as completed whatever failed
getQueueStatusNoFailure(queue) ==
    IF queue.totalItems = 0 THEN "empty"
    ELSE IF queue.processingItems > 0 THEN "processing"
    ELSE IF queue.pendingItems > 0 THEN "pending"
    ELSE "completed"

\* getQueueStatus, which reads the counters of the queue
getQueueStatus(queue) ==
    IF queue.totalItems = 0 THEN "empty"
    ELSE IF queue.processingItems > 0 THEN "processing"
    ELSE IF queue.pendingItems > 0 THEN "pending"
    ELSE IF queue.failedItems > 0 THEN "partial_failure"
    ELSE "completed"

\* Array.prototype.find as the index of the first match, 0 when there is none
FindIndex(matching) ==
    IF matching = {} THEN 0
    ELSE CHOOSE i \in matching : \A j \in matching : i <= j

\* the body of updateItemStatus between getQueue and saveQueue, item found at k
\* updateItemStatus stamping startedAt at every transition to processing
ApplyStatusRestamps(queue, k, status, result, error, now) ==
    LET item == queue.items[k]
        stamped == IF status = "processing" THEN now ELSE item.startedAt
        merged == IF result # {} THEN item.result \cup result \cup {"completedAt"}
                  ELSE item.result
        err == IF error # Undefined THEN error ELSE item.error
    IN recalculateTotals(
         [queue EXCEPT !.items[k] = [item EXCEPT !.status = status,
                                                 !.startedAt = stamped,
                                                 !.result = merged,
                                                 !.error = err]])

ApplyStatus(queue, k, status, result, error, now) ==
    LET item == queue.items[k]
        stamped == IF status = "processing" /\ item.startedAt = NullTime
                   THEN now ELSE item.startedAt
        merged == IF result # {} THEN item.result \cup result \cup {"completedAt"}
                  ELSE item.result
        err == IF error # Undefined THEN error ELSE item.error
    IN recalculateTotals(
         [queue EXCEPT !.items[k] = [item EXCEPT !.status = status,
                                                 !.startedAt = stamped,
                                                 !.result = merged,
                                                 !.error = err]])

\* a retry that moves the items it resets to the end of the list
RetryItemsToBack(items) ==
    SelectSeq(items, LAMBDA it : it.status # "failed") \o
    [i \in 1..CountStatus(items, "failed") |->
        [SelectSeq(items, LAMBDA it : it.status = "failed")[i]
            EXCEPT !.status = "pending", !.error = Null, !.retryCount = @ + 1]]

\* a retry that leaves the error of the items it resets
RetryItemsKeepError(items) ==
    [i \in DOMAIN items |->
        IF items[i].status = "failed"
        THEN [items[i] EXCEPT !.status = "pending", !.retryCount = @ + 1]
        ELSE items[i]]

\* the loop of retryFailedItems over queue.items
RetryItems(items) ==
    [i \in DOMAIN items |->
        IF items[i].status = "failed"
        THEN [items[i] EXCEPT !.status = "pending", !.error = Null,
                              !.retryCount = @ + 1]
        ELSE items[i]]

IsPending(item) == item.status = "pending"

\* the filter of getPendingItems
PendingOf(queue) == SelectSeq(queue.items, IsPending)

\* ------------------------------------------------------------ uploadToDrive
\* What one fetch of performUpload meets: a response (status, the message of
\* the error body or <<>> when the body has none, data.id when the status
\* is 200) or a network failure.
UploadResponses ==
    { [net |-> FALSE, status |-> "200", body |-> <<"file-id">>],
      [net |-> FALSE, status |-> "401", body |-> <<>>],
      [net |-> FALSE, status |-> "403", body |-> <<"Forbidden">>],
      [net |-> FALSE, status |-> "500", body |-> <<>>],
      [net |-> FALSE, status |-> "429", body |-> <<"Quota exceeded, see ", "403">>],
      [net |-> TRUE,  status |-> "0",   body |-> <<"Failed to fetch">>] }

\* performUpload: the result it returns, or the message of the Error it throws
performUpload(resp) ==
    IF resp.net THEN [threw |-> TRUE, message |-> resp.body, fileId |-> Undefined]
    ELSE IF resp.status # "200"
    THEN [threw |-> TRUE,
          message |-> <<resp.status, ": ">> \o
                      (IF Truthy(resp.body) THEN resp.body ELSE <<"HTTP ", resp.status>>),
          fileId |-> Undefined]
    ELSE [threw |-> FALSE, message |-> <<>>, fileId |-> resp.body]

\* the authorization test with the 403 case left out
IsAuthError401(errorMessage) == Includes(errorMessage, "401")

\* errorMessage.includes('401') || errorMessage.includes('403')
IsAuthError(errorMessage) == Includes(errorMessage, "401") \/ Includes(errorMessage, "403")

\* `${maxRetries}`: the string form of a small number
NumStr(n) == CASE n = 0 -> "0" [] n = 1 -> "1" [] n = 2 -> "2" [] n = 3 -> "3"
                 [] n = 4 -> "4" [] OTHER -> "n"

\* the for loop of uploadToDrive from `attempt` on; responses[attempt] is what
\* the attempt's fetch meets; requests and waits record what the loop has done
RECURSIVE UploadLoop(_, _, _, _, _)
UploadLoop(attempt, maxRetries, responses, requests, waits) ==
    IF attempt > maxRetries
    THEN [success |-> FALSE, error |-> <<"Max retries exceeded">>, fileId |-> Undefined,
          requests |-> requests, waits |-> waits]
    ELSE LET r == performUpload(responses[attempt])
             errorMessage == ErrorMessage(r.message)
         IN IF ~r.threw
            THEN [success |-> TRUE, error |-> Undefined, fileId |-> r.fileId,
                  requests |-> requests + 1, waits |-> waits]
            ELSE IF IsAuthError(errorMessage)
            THEN [success |-> FALSE, error |-> errorMessage, fileId |-> Undefined,
                  requests |-> requests + 1, waits |-> waits]
            ELSE IF attempt = maxRetries
            THEN [success |-> FALSE, fileId |-> Undefined,
                  error |-> <<"Upload failed after ", NumStr(maxRetries), " attempts: ">>
                            \o errorMessage,
                  requests |-> requests + 1, waits |-> waits]
            ELSE UploadLoop(attempt + 1, maxRetries, responses, requests + 1,
                            Append(waits, (2 ^ attempt) * 1000))

uploadToDrive(responses, maxRetries) == UploadLoop(1, maxRetries, responses, 0, <<>>)

\* the responses the uploads of a processQueue run meet
RunUploadResponses == {resp \in UploadResponses : resp.status \in {"200", "401", "500"}}

\* what uploadToDrive can hand back to processItem, which passes no maxRetries
UploadResults ==
    { [success |-> u.success, error |-> u.error] :
        u \in { uploadToDrive(rs, DefaultUploadMaxRetries) :
                  rs \in [1..DefaultUploadMaxRetries -> RunUploadResponses] } }

\* ------------------------------------------------------------ collaborators
\* what generatePdf can throw (font loading, pdf-lib); a non-Error included
RenderThrows == {<<"Render failed">>, NonError}

\* getAccessToken: the token it resolves with, or the message it rejects with
AccessTokenOutcomes ==
    { [threw |-> FALSE, token |-> <<"token">>],
      [threw |-> TRUE, token |-> <<"AUTH_CANCELLED">>] }

\* what chrome.storage.session.get / set reject with
StorageError == <<"Storage failed">>

\* Math.round(num / den * 100) for 0 <= num <= den, den > 0
RoundPercent(num, den) == (200 * num + den) \div (2 * den)

\* -------------------------------------------------------------------- state
VARIABLES
    store,       \* chrome.storage.session[QUEUE_STORAGE_KEY], a PostQueue
    clock,       \* the last value of Date.now() that was recorded
    uuids,       \* how many values crypto.randomUUID() has returned
    cancelled,   \* BatchProcessor.cancelled
    processing,  \* BatchProcessor.processing
    run,         \* per processQueue invocation: its locals and its position
    ext,         \* the QueueManager call of an outside caller between get and set
    ret,         \* what the outside QueueManager call that has just returned gave back
    handler,     \* per handleProcessQueue invocation: its position and payload
    upload,      \* a stand-alone uploadToDrive call: its inputs and its result
    pdf,         \* a stand-alone call into the renderer: its inputs and its result
    faults       \* how many chrome.storage.session calls have rejected

\* Date.now() where the code records its value: later than every value recorded
Now == clock + 1

vars ==
    <<store, clock, uuids, cancelled, processing, run, ext, ret, handler, upload, pdf, faults>>

NewProgress(total) ==
    [percentage |-> 0, completed |-> 0, total |-> total, successCount |-> 0,
     failedCount |-> 0, currentItem |-> NoTitle, phase |-> "idle", cancelled |-> FALSE]

NoCall == [site |-> "none", status |-> "pending", result |-> {}, error |-> Undefined]

\* the locals of a processQueue invocation that has not started
NewRun ==
    [pc |-> "idle", shouldUpload |-> FALSE, continueOnError |-> TRUE, maxRetries |-> 1,
     pendingItems |-> <<>>, item |-> 0, attempt |-> 0, success |-> FALSE,
     lastError |-> Undefined, progress |-> NewProgress(0),
     call |-> NoCall, queue |-> createEmptyQueue,
     reports |-> 0, lastReport |-> NewProgress(0), recent |-> <<>>,
     \* history of the item in hand: collaborator calls, waits, cancel() position
     renders |-> 0, tokenRequests |-> 0, uploadCalls |-> 0, tokenFailed |-> FALSE,
     throws |-> 0, waits |-> <<>>, cancelAt |-> -1,
     \* per finished item: how many attempts were made and how many threw
     history |-> <<>>]

NoExt == [op |-> "none", queue |-> createEmptyQueue, items |-> <<>>, count |-> 0]
NoRet == [op |-> "none", items |-> <<>>, count |-> 0, threw |-> FALSE, status |-> "none"]
NoUpload == [pc |-> "idle", responses |-> <<>>, maxRetries |-> 0,
             result |-> [success |-> FALSE, error |-> Undefined, fileId |-> Undefined,
                         requests |-> 0,
                         waits |-> <<>>]]

InitCore ==
    /\ store = createEmptyQueue
    /\ clock = 0
    /\ uuids = 0
    /\ cancelled = FALSE
    /\ processing = FALSE
    /\ run = [r \in Runs |-> NewRun]
    /\ ext = NoExt
    /\ ret = NoRet
    /\ faults = 0
    /\ handler = [r \in Runs |-> [pc |-> "idle", uploadToDrive |-> TRUE,
                                  response |-> "none"]]

NoPdf == [pc |-> "idle"]

Init == InitCore /\ upload = NoUpload /\ pdf = NoPdf

\* ------------------------------------------------- QueueManager, outside calls
\* An outside caller (a message handler, a test) has one QueueManager call in
\* flight at a time; `ext` holds the queue it read and changed until saveQueue.

Returned(op, items, count) ==
    [op |-> op, items |-> items, count |-> count, threw |-> FALSE, status |-> "none"]

\* the duplicate test looking at pending items only
ExistingIndexPending(queue, post) ==
    FindIndex({ i \in DOMAIN queue.items :
                    queue.items[i].postId = post /\ queue.items[i].status = "pending" })

\* queue.items.find((item) => item.postId === post.id), as an index
ExistingIndex(queue, post) ==
    FindIndex({ i \in DOMAIN queue.items : queue.items[i].postId = post })

\* addToQueue up to its saveQueue
AddToQueue(post) ==
    /\ ext.op = "none"
    /\ LET queue == store
           k == ExistingIndex(queue, post)
       IN IF k # 0
          THEN /\ ret' = Returned("addToQueue", <<queue.items[k]>>, 0)
               /\ UNCHANGED <<store, clock, uuids, ext>>
          ELSE /\ uuids < MaxIds
               /\ LET item == createQueueItem(post, uuids + 1, Now)
                  IN ext' = [op |-> "addToQueue",
                             queue |-> recalculateTotals(
                                 [queue EXCEPT !.items = Append(@, item)]),
                             items |-> <<item>>, count |-> 0]
               /\ clock' = Now
               /\ uuids' = uuids + 1
               /\ ret' = NoRet
               /\ UNCHANGED <<store>>
    /\ UNCHANGED <<cancelled, processing, run, handler, upload, pdf, faults>>

\* removeFromQueue up to its saveQueue
RemoveFromQueue(itemId) ==
    /\ ext.op = "none"
    /\ ext' = [op |-> "removeFromQueue",
               queue |-> recalculateTotals(
                   [store EXCEPT !.items = SelectSeq(@, LAMBDA it : it.id # itemId)]),
               items |-> <<>>, count |-> 0]
    /\ ret' = NoRet
    /\ UNCHANGED <<store, clock, uuids, cancelled, processing, run, handler, upload, pdf, faults>>

\* clearCompletedItems up to its saveQueue
ClearCompletedItems ==
    /\ ext.op = "none"
    /\ ext' = [op |-> "clearCompletedItems",
               queue |-> recalculateTotals(
                   [store EXCEPT !.items = SelectSeq(@, LAMBDA it : it.status # "completed")]),
               items |-> <<>>, count |-> 0]
    /\ ret' = NoRet
    /\ UNCHANGED <<store, clock, uuids, cancelled, processing, run, handler, upload, pdf, faults>>

\* retryFailedItems up to its saveQueue; it returns at once when nothing failed
RetryFailedItems ==
    /\ ext.op = "none"
    /\ \A i \in DOMAIN store.items :
          store.items[i].status = "failed" => store.items[i].retryCount < MaxRetryCount
    /\ LET retriedCount == CountStatus(store.items, "failed")
       IN IF retriedCount > 0
          THEN /\ ext' = [op |-> "retryFailedItems",
                          queue |-> recalculateTotals(
                              [store EXCEPT !.items = RetryItems(@)]),
                          items |-> <<>>, count |-> retriedCount]
               /\ ret' = NoRet
          ELSE /\ ret' = Returned("retryFailedItems", <<>>, 0)
               /\ UNCHANGED ext
    /\ UNCHANGED <<store, clock, uuids, cancelled, processing, run, handler, upload, pdf, faults>>

\* clearQueue: saveQueue(createEmptyQueue()), no read
ClearQueue ==
    /\ ext.op = "none"
    /\ store' = createEmptyQueue
    /\ ret' = Returned("clearQueue", <<>>, 0)
    /\ UNCHANGED <<clock, uuids, ext, cancelled, processing, run, handler, upload, pdf, faults>>

\* the saveQueue that ends addToQueue, removeFromQueue, clearCompletedItems and
\* retryFailedItems, and the return of the call
SaveQueue ==
    /\ ext.op # "none"
    /\ store' = ext.queue
    /\ ret' = Returned(ext.op, ext.items, ext.count)
    /\ ext' = NoExt
    /\ UNCHANGED <<clock, uuids, cancelled, processing, run, handler, upload, pdf, faults>>

\* chrome.storage.session.set rejects: the call throws, nothing is stored
SaveQueueFails ==
    /\ ext.op # "none"
    /\ faults < MaxFaults
    /\ faults' = faults + 1
    /\ ret' = [op |-> ext.op, items |-> <<>>, count |-> 0, threw |-> TRUE,
               status |-> "none"]
    /\ ext' = NoExt
    /\ UNCHANGED <<store, clock, uuids, cancelled, processing, run, handler, upload, pdf>>

\* handleGetQueueStatus: the status of the queue it reads
HandleGetQueueStatus ==
    /\ ext.op = "none"
    /\ ret' = [Returned("getQueueStatus", <<>>, 0) EXCEPT !.status = getQueueStatus(store)]
    /\ UNCHANGED <<store, clock, uuids, ext, cancelled, processing, run, handler, upload, pdf,
                   faults>>

QueueCall ==
    \/ \E post \in Posts : AddToQueue(post)
    \/ \E itemId \in 1..MaxIds : RemoveFromQueue(itemId)
    \/ ClearCompletedItems
    \/ RetryFailedItems
    \/ ClearQueue

\* ------------------------------------------- BatchProcessor.processQueue, locals
\* The operators below are the synchronous stretches of processQueue and
\* processItem; each takes the invocation's locals `rr` and gives them back
\* as they are at the next await (rr.pc names it) or at the return.

\* how many of the latest snapshots given to onProgress a run remembers: the
\* three that one synchronous stretch can make, and the one before them
MaxReportsKept == 4

KeepRecent(snapshots) ==
    IF Len(snapshots) > MaxReportsKept THEN Tail(snapshots) ELSE snapshots

\* onProgress?.(progress)
Report(rr) ==
    [rr EXCEPT !.reports = @ + 1, !.lastReport = rr.progress,
               !.recent = KeepRecent(Append(@, rr.progress))]

\* after the for loop: phase, currentItem, the last report, processing = false
Finish(rr) ==
    Report([rr EXCEPT !.progress = [@ EXCEPT !.phase = "complete", !.currentItem = NoTitle],
                      !.pc = "returned"])

\* a call of queueManager.updateItemStatus, up to its getQueue
CallUpdate(rr, site, status, result, error) ==
    [rr EXCEPT !.pc = "updateItemStatus",
               !.call = [site |-> site, status |-> status, result |-> result,
                         error |-> error]]

\* processItem up to its first await
ProcessItem(rr) == CallUpdate(rr, "processing", "processing", {}, Undefined)

\* a final write that leaves the item processing
AfterAttemptsStaysProcessing(rr) ==
    LET attempts == IF rr.success THEN rr.attempt + 1 ELSE rr.attempt
        rr1 == [rr EXCEPT !.history = Append(@, [attempts |-> attempts,
                                                 throws |-> rr.throws])]
    IN IF rr.success
       THEN CallUpdate([rr1 EXCEPT !.progress.successCount = @ + 1],
                       "final", "processing", {"completedAt"}, Undefined)
       ELSE CallUpdate([rr1 EXCEPT !.progress.failedCount = @ + 1],
                       "final", "processing", {}, rr.lastError)

\* after the retry loop: the counters and the call that writes the final status
AfterAttempts(rr) ==
    LET attempts == IF rr.success THEN rr.attempt + 1 ELSE rr.attempt
        rr1 == [rr EXCEPT !.history = Append(@, [attempts |-> attempts,
                                                 throws |-> rr.throws])]
    IN IF rr.success
       THEN CallUpdate([rr1 EXCEPT !.progress.successCount = @ + 1],
                       "final", "completed", {"completedAt"}, Undefined)
       ELSE CallUpdate([rr1 EXCEPT !.progress.failedCount = @ + 1],
                       "final", "failed", {}, rr.lastError)

\* the head of `for (attempt ...; attempt < maxRetries; ...)`
AttemptLoop(rr) ==
    IF rr.attempt < rr.maxRetries THEN ProcessItem(rr) ELSE AfterAttempts(rr)

\* the loop head without its `if (this.cancelled)`
LoopHeadNoCancel(rr, isCancelled) ==
    IF rr.item > Len(rr.pendingItems)
    THEN Finish(rr)
    ELSE AttemptLoop([rr EXCEPT !.progress.currentItem = rr.pendingItems[rr.item].postId,
                                !.success = FALSE, !.lastError = Undefined,
                                !.attempt = 0,
                                !.renders = 0, !.tokenRequests = 0, !.uploadCalls = 0,
                                !.tokenFailed = FALSE, !.throws = 0, !.waits = <<>>])

\* the head of `for (const item of pendingItems)`, rr.item the index of the next
LoopHead(rr, isCancelled) ==
    IF rr.item > Len(rr.pendingItems)
    THEN Finish(rr)
    ELSE IF isCancelled
    THEN Finish(Report([rr EXCEPT !.progress = [@ EXCEPT !.cancelled = TRUE,
                                                         !.phase = "complete"]]))
    ELSE AttemptLoop([rr EXCEPT !.progress.currentItem = rr.pendingItems[rr.item].postId,
                                !.success = FALSE, !.lastError = Undefined,
                                !.attempt = 0,
                                !.renders = 0, !.tokenRequests = 0, !.uploadCalls = 0,
                                !.tokenFailed = FALSE, !.throws = 0, !.waits = <<>>])

\* the end of an iteration that stops at any failed item
AfterItemStop(rr, isCancelled) ==
    LET completed == rr.progress.completed + 1
        rr1 == Report([rr EXCEPT !.progress =
                          [@ EXCEPT !.completed = completed,
                                    !.percentage = RoundPercent(completed, rr.progress.total)]])
    IN IF ~rr.success
       THEN Finish(rr1)
       ELSE LoopHead([rr1 EXCEPT !.item = @ + 1], isCancelled)

\* the end of an iteration that never stops at a failed item
AfterItemContinue(rr, isCancelled) ==
    LET completed == rr.progress.completed + 1
        rr1 == Report([rr EXCEPT !.progress =
                          [@ EXCEPT !.completed = completed,
                                    !.percentage = RoundPercent(completed, rr.progress.total)]])
    IN LoopHead([rr1 EXCEPT !.item = @ + 1], isCancelled)

\* the end of an iteration that counts the item and leaves the percentage
AfterItemStalePercent(rr, isCancelled) ==
    LET completed == rr.progress.completed + 1
        rr1 == Report([rr EXCEPT !.progress.completed = completed])
    IN IF ~rr.success /\ ~rr.continueOnError
       THEN Finish(rr1)
       ELSE LoopHead([rr1 EXCEPT !.item = @ + 1], isCancelled)

\* after the final status is written: completed, percentage, report, next item
AfterItem(rr, isCancelled) ==
    LET completed == rr.progress.completed + 1
        rr1 == Report([rr EXCEPT !.progress =
                          [@ EXCEPT !.completed = completed,
                                    !.percentage = RoundPercent(completed, rr.progress.total)]])
    IN IF ~rr.success /\ ~rr.continueOnError
       THEN Finish(rr1)
       ELSE LoopHead([rr1 EXCEPT !.item = @ + 1], isCancelled)

\* a catch block that waits after the last attempt too
CatchAlwaysWaits(rr, thrown) ==
    [rr EXCEPT !.lastError = ErrorMessage(thrown), !.throws = @ + 1,
               !.pc = "delay", !.waits = Append(@, 1000 * (rr.attempt + 1))]

\* the catch block of the retry loop
Catch(rr, thrown) ==
    LET rr1 == [rr EXCEPT !.lastError = ErrorMessage(thrown), !.throws = @ + 1]
    IN IF rr.attempt < rr.maxRetries - 1
       THEN [rr1 EXCEPT !.pc = "delay", !.waits = Append(@, 1000 * (rr.attempt + 1))]
       ELSE AttemptLoop([rr1 EXCEPT !.attempt = @ + 1])

\* updateItemStatus throws: inside processItem the retry loop catches it, at
\* the final status write nothing does and processQueue rejects
Throw(rr, thrown) ==
    IF rr.call.site = "final"
    THEN [rr EXCEPT !.pc = "rejected", !.call = NoCall, !.queue = createEmptyQueue]
    ELSE Catch([rr EXCEPT !.call = NoCall, !.queue = createEmptyQueue], thrown)

\* a processItem that gives up as soon as it sees the cancellation flag
ResumePreempts(rr, isCancelled) ==
    LET rr1 == [rr EXCEPT !.call = NoCall, !.queue = createEmptyQueue]
    IN IF isCancelled /\ rr.call.site # "final"
       THEN Finish(Report([rr1 EXCEPT !.progress = [@ EXCEPT !.cancelled = TRUE,
                                                             !.phase = "complete"]]))
       ELSE CASE rr.call.site = "processing" ->
                   Report([rr1 EXCEPT !.progress.phase = "generating_pdf",
                                      !.pc = "generatePdf"])
              [] rr.call.site = "pdfStored" ->
                   IF rr.shouldUpload
                   THEN Report([rr1 EXCEPT !.progress.phase = "uploading",
                                           !.pc = "getAccessToken"])
                   ELSE AfterAttempts([rr1 EXCEPT !.success = TRUE])
              [] rr.call.site = "uploaded" -> AfterAttempts([rr1 EXCEPT !.success = TRUE])
              [] OTHER -> AfterItem(rr1, isCancelled)

\* updateItemStatus returns: the code after the call, by call site
Resume(rr, isCancelled) ==
    LET rr1 == [rr EXCEPT !.call = NoCall, !.queue = createEmptyQueue]
    IN CASE rr.call.site = "processing" ->
              Report([rr1 EXCEPT !.progress.phase = "generating_pdf", !.pc = "generatePdf"])
         [] rr.call.site = "pdfStored" ->
              IF rr.shouldUpload
              THEN Report([rr1 EXCEPT !.progress.phase = "uploading",
                                      !.pc = "getAccessToken"])
              ELSE AfterAttempts([rr1 EXCEPT !.success = TRUE])
         [] rr.call.site = "uploaded" -> AfterAttempts([rr1 EXCEPT !.success = TRUE])
         [] OTHER -> AfterItem(rr1, isCancelled)

\* the empty case returning without its report
EmptyRunSilent(rr) ==
    [rr EXCEPT !.progress = [@ EXCEPT !.phase = "complete", !.percentage = 100],
               !.pc = "returned"]

\* `if (pendingItems.length === 0)`: one report, then the return
EmptyRun(rr) ==
    Report([rr EXCEPT !.progress = [@ EXCEPT !.phase = "complete", !.percentage = 100],
                      !.pc = "returned"])

\* this.processing after a step that leaves the invocation's locals as rr
ProcessingAfter(rr) == IF rr.pc = "returned" THEN FALSE ELSE processing

Free(r) == run[r].pc \in {"idle", "returned", "rejected"}

\* ---------------------------------------- BatchProcessor.processQueue, actions
\* the call of processQueue, up to `await this.queueManager.getPendingItems()`
ProcessQueue(r, shouldUpload, continueOnError, maxRetries) ==
    /\ Free(r)
    /\ cancelled' = FALSE
    /\ processing' = TRUE
    /\ run' = [run EXCEPT ![r] = [NewRun EXCEPT !.pc = "getPendingItems",
                                                !.shouldUpload = shouldUpload,
                                                !.continueOnError = continueOnError,
                                                !.maxRetries = maxRetries]]

\* getPendingItems resolves: the snapshot, the empty case, the first item
GetPendingItems(r) ==
    /\ run[r].pc = "getPendingItems"
    /\ LET pendingItems == PendingOf(store)
           total == Len(pendingItems)
           rr == [run[r] EXCEPT !.pendingItems = pendingItems,
                                !.progress = NewProgress(total), !.item = 1]
           next == IF total = 0 THEN EmptyRun(rr) ELSE LoopHead(rr, cancelled)
       IN /\ run' = [run EXCEPT ![r] = next]
          /\ processing' = ProcessingAfter(next)
    /\ ret' = NoRet
    /\ UNCHANGED <<store, clock, uuids, cancelled, ext, handler, upload, pdf, faults>>

\* getPendingItems rejects: nothing catches it, processQueue rejects
GetPendingItemsFails(r) ==
    /\ run[r].pc = "getPendingItems"
    /\ faults < MaxFaults
    /\ faults' = faults + 1
    /\ run' = [run EXCEPT ![r].pc = "rejected"]
    /\ ret' = NoRet
    /\ UNCHANGED <<store, clock, uuids, cancelled, processing, ext, handler, upload, pdf>>

\* updateItemStatus from getQueue to saveQueue: find the item, change it
UpdateItemStatus(r) ==
    /\ run[r].pc = "updateItemStatus"
    /\ LET rr == run[r]
           itemId == rr.pendingItems[rr.item].id
           k == FindIndex({ i \in DOMAIN store.items : store.items[i].id = itemId })
       IN IF k = 0
          THEN LET next == Resume(rr, cancelled)
               IN /\ run' = [run EXCEPT ![r] = next]
                  /\ processing' = ProcessingAfter(next)
                  /\ UNCHANGED clock
          ELSE LET queue == ApplyStatus(store, k, rr.call.status, rr.call.result,
                                        rr.call.error, Now)
               IN /\ run' = [run EXCEPT ![r] = [rr EXCEPT !.pc = "saveQueue",
                                                          !.queue = queue]]
                  /\ clock' = IF queue.items[k].startedAt = store.items[k].startedAt
                              THEN clock ELSE Now
                  /\ UNCHANGED processing
    /\ ret' = NoRet
    /\ UNCHANGED <<store, uuids, cancelled, ext, handler, upload, pdf, faults>>

\* saveQueue of updateItemStatus, then the code after the call
UpdateItemStatusSave(r) ==
    /\ run[r].pc = "saveQueue"
    /\ store' = run[r].queue
    /\ LET next == Resume(run[r], cancelled)
       IN /\ run' = [run EXCEPT ![r] = next]
          /\ processing' = ProcessingAfter(next)
    /\ ret' = NoRet
    /\ UNCHANGED <<clock, uuids, cancelled, ext, handler, upload, pdf, faults>>

\* the getQueue or the saveQueue of updateItemStatus rejects
UpdateItemStatusFails(r) ==
    /\ run[r].pc \in {"updateItemStatus", "saveQueue"}
    /\ faults < MaxFaults
    /\ faults' = faults + 1
    /\ LET next == Throw(run[r], StorageError)
       IN /\ run' = [run EXCEPT ![r] = next]
          /\ processing' = ProcessingAfter(next)
    /\ ret' = NoRet
    /\ UNCHANGED <<store, clock, uuids, cancelled, ext, handler, upload, pdf>>

\* generatePdf settles: the result is stored, or the throw is caught
GeneratePdf(r) ==
    /\ run[r].pc = "generatePdf"
    /\ LET rr == [run[r] EXCEPT !.renders = @ + 1]
       IN \/ run' = [run EXCEPT ![r] =
                       CallUpdate(rr, "pdfStored", "processing",
                                  {"pdfFilename", "pdfSizeBytes"}, Undefined)]
          \/ \E thrown \in RenderThrows : run' = [run EXCEPT ![r] = Catch(rr, thrown)]
    /\ ret' = NoRet
    /\ UNCHANGED <<store, clock, uuids, cancelled, processing, ext, handler, upload, pdf, faults>>

\* getAccessToken settles
GetAccessToken(r) ==
    /\ run[r].pc = "getAccessToken"
    /\ \E o \in AccessTokenOutcomes :
         LET rr == [run[r] EXCEPT !.tokenRequests = @ + 1,
                                  !.tokenFailed = @ \/ o.threw \/ ~Truthy(o.token)]
         IN run' = [run EXCEPT ![r] =
                      IF o.threw THEN Catch(rr, o.token)
                      ELSE IF ~Truthy(o.token) THEN Catch(rr, <<"Not authenticated">>)
                      ELSE [rr EXCEPT !.pc = "uploadToDrive"]]
    /\ ret' = NoRet
    /\ UNCHANGED <<store, clock, uuids, cancelled, processing, ext, handler, upload, pdf, faults>>

\* uploadToDrive settles
UploadToDrive(r) ==
    /\ run[r].pc = "uploadToDrive"
    /\ \E uploadResult \in UploadResults :
         LET rr == [run[r] EXCEPT !.uploadCalls = @ + 1]
         IN run' = [run EXCEPT ![r] =
                      IF ~uploadResult.success
                      THEN Catch(rr, IF Truthy(uploadResult.error) THEN uploadResult.error
                                     ELSE <<"Upload failed">>)
                      ELSE CallUpdate(rr, "uploaded", "processing",
                                      {"driveFileId", "webViewLink"}, Undefined)]
    /\ ret' = NoRet
    /\ UNCHANGED <<store, clock, uuids, cancelled, processing, ext, handler, upload, pdf, faults>>

\* the backoff delay between two attempts ends
Delay(r) ==
    /\ run[r].pc = "delay"
    /\ LET next == AttemptLoop([run[r] EXCEPT !.attempt = @ + 1])
       IN run' = [run EXCEPT ![r] = next]
    /\ ret' = NoRet
    /\ UNCHANGED <<store, clock, uuids, cancelled, processing, ext, handler, upload, pdf, faults>>

\* cancel(); cancelAt records the item each active invocation had in hand
Cancel ==
    /\ processing
    /\ cancelled' = TRUE
    /\ run' = [r \in Runs |->
                 IF ~Free(r) /\ run[r].cancelAt = -1
                 THEN [run[r] EXCEPT !.cancelAt = run[r].item] ELSE run[r]]
    /\ ret' = NoRet
    /\ UNCHANGED <<store, clock, uuids, processing, ext, handler, upload, pdf, faults>>

\* the caller's await of processQueue ends; the invocation's locals are gone
Settle(r) ==
    /\ run[r].pc \in {"returned", "rejected"}
    /\ run' = [run EXCEPT ![r] = NewRun]
    /\ ret' = NoRet
    /\ UNCHANGED <<store, clock, uuids, cancelled, processing, ext, handler, upload, pdf, faults>>

\* the steps of a run that renders only (options.uploadToDrive false)
RenderStep(r) ==
    \/ GetPendingItems(r)
    \/ UpdateItemStatus(r)
    \/ UpdateItemStatusSave(r)
    \/ GeneratePdf(r)
    \/ Delay(r)

RunStep(r) ==
    \/ RenderStep(r)
    \/ GetAccessToken(r)
    \/ UploadToDrive(r)

\* ------------------------------------------------- one caller, one run at a time
\* A caller that awaits each call before the next (the integration tests):
\* queue calls between runs, processQueue with any options, cancel() during it.
Quiet == ext.op = "none" /\ \A r \in Runs : run[r].pc = "idle"

CallProcessQueue(r) ==
    \E shouldUpload, continueOnError \in BOOLEAN, maxRetries \in 0..MaxRetries :
       /\ Quiet
       /\ ProcessQueue(r, shouldUpload, continueOnError, maxRetries)
       /\ ret' = NoRet
       /\ UNCHANGED <<store, clock, uuids, ext, handler, upload, pdf, faults>>

NextRun ==
    \/ (Quiet /\ QueueCall)
    \/ (Quiet /\ HandleGetQueueStatus)
    \/ SaveQueue
    \/ CallProcessQueue(1)
    \/ RunStep(1)
    \/ Settle(1)
    \/ Cancel

SpecRun == Init /\ [][NextRun]_vars

\* the same caller when chrome.storage.session calls may reject
NextFaults ==
    \/ (Quiet /\ \E post \in Posts : AddToQueue(post))
    \/ SaveQueue
    \/ SaveQueueFails
    \/ CallProcessQueue(1)
    \/ RunStep(1)
    \/ GetPendingItemsFails(1)
    \/ UpdateItemStatusFails(1)
    \/ Settle(1)

SpecFaults == Init /\ [][NextFaults]_vars

\* --------------------------------------------------------- handleProcessQueue
\* Runs are the PROCESS_QUEUE messages of one behaviour, in order of arrival;
\* handler[r].pc is "idle" until message r arrives and "answered" at the end.
\* Here the queue is filled before the first message and the payload says
\* uploadToDrive: false.
MaxQueued == 1         \* items enqueued before the PROCESS_QUEUE messages arrive

NoMessage == \A r \in Runs : handler[r].pc = "idle"

\* handleProcessQueue up to `await queueManager.getPendingItems()`
HandleProcessQueue(r, payloadUpload) ==
    /\ handler[r].pc = "idle"
    /\ Free(r)
    /\ \A q \in Runs : q < r => handler[q].pc # "idle"
    /\ handler' = [handler EXCEPT ![r] =
                     IF processing
                     THEN [pc |-> "answered", uploadToDrive |-> payloadUpload,
                           response |-> "PROCESSING_IN_PROGRESS"]
                     ELSE [pc |-> "getPendingItems", uploadToDrive |-> payloadUpload,
                           response |-> "none"]]
    /\ ret' = NoRet
    /\ UNCHANGED <<store, clock, uuids, cancelled, processing, run, ext, upload, pdf, faults>>

\* getPendingItems resolves in the handler: nothing to do, or processQueue is called
HandleProcessQueueResume(r) ==
    /\ handler[r].pc = "getPendingItems"
    /\ IF PendingOf(store) = <<>>
       THEN /\ handler' = [handler EXCEPT ![r].pc = "answered",
                                          ![r].response = "No items to process"]
            /\ UNCHANGED <<cancelled, processing, run>>
       ELSE /\ ProcessQueue(r, handler[r].uploadToDrive, TRUE, HandlerMaxRetries)
            /\ handler' = [handler EXCEPT ![r].pc = "answered",
                                          ![r].response = "Processing started"]
    /\ ret' = NoRet
    /\ UNCHANGED <<store, clock, uuids, ext, upload, pdf, faults>>

NextHandlers ==
    \/ (NoMessage /\ uuids < MaxQueued /\ \E post \in Posts : AddToQueue(post))
    \/ SaveQueue
    \/ \E r \in Runs : HandleProcessQueue(r, FALSE)
    \/ \E r \in Runs : HandleProcessQueueResume(r)
    \/ \E r \in Runs : RenderStep(r)
    \/ \E r \in Runs : Settle(r)
    \/ Cancel

SpecHandlers == Init /\ [][NextHandlers]_vars

\* ------------------------------------------------- enqueues during a run
\* One PROCESS_QUEUE message, and an outside caller whose addToQueue and
\* removeFromQueue calls go on before, during and after the run it starts:
\* their getQueue and saveQueue interleave freely with those of updateItemStatus.
NextEnqueue ==
    \/ \E post \in Posts : AddToQueue(post)
    \/ \E itemId \in 1..MaxIds : RemoveFromQueue(itemId)
    \/ SaveQueue
    \/ HandleProcessQueue(1, FALSE)
    \/ HandleProcessQueueResume(1)
    \/ RenderStep(1)
    \/ Settle(1)

SpecEnqueue == Init /\ [][NextEnqueue]_vars

\* the same, with clearQueue among the outside calls
NextRemove ==
    \/ NextEnqueue
    \/ ClearQueue

SpecRemove == Init /\ [][NextRemove]_vars

\* ------------------------------------------------- uploadToDrive on its own
InitUpload ==
    /\ InitCore
    /\ pdf = NoPdf
    /\ upload \in { [NoUpload EXCEPT !.pc = "called", !.responses = rs, !.maxRetries = m] :
                      rs \in [1..MaxUploadRetries -> UploadResponses],
                      m \in 0..MaxUploadRetries }

\* the call settles with what the retry loop returns
UploadSettles ==
    /\ upload.pc = "called"
    /\ upload' = [upload EXCEPT !.pc = "settled",
                                !.result = uploadToDrive(upload.responses, upload.maxRetries)]
    /\ UNCHANGED <<store, clock, uuids, cancelled, processing, run, ext, ret, handler, pdf,
                   faults>>

SpecUpload == InitUpload /\ [][UploadSettles]_vars

\* ------------------------------------------------- generateFilename on its own
\* A string is the sequence of its characters.
MaxPieces == 4

\* substring(0, 200)
MaxFilenameLength == 200

PdfSuffix == <<".", "p", "d", "f">>

\* is matched by the class [<>:"/\\|?*]
IllegalChars == {"<", ">", ":", "\"", "/", "\\", "|", "?", "*"}

\* is matched by \s
WhiteSpace == {" ", "\t"}

\* 'RedNote_Post'
DefaultName == <<"R", "e", "d", "N", "o", "t", "e", "_", "P", "o", "s", "t">>

\* a title one character short of the point where its suffix starts to be cut
LongName == [i \in 1..(MaxFilenameLength - 3) |-> "a"]

TitlePieces ==
    { <<"a">>, <<" ">>, <<"\t">>, <<"/">>, <<"*">>, PdfSuffix, <<".", "P", "d", "F">>,
      LongName }

RECURSIVE Titles(_)
Titles(n) ==
    IF n = 0 THEN {<<>>}
    ELSE Titles(n - 1) \cup { t \o piece : t \in Titles(n - 1), piece \in TitlePieces }

\* String.prototype.toLowerCase, on the letters that occur
LowerChar(c) ==
    CASE c = "P" -> "p"
      [] c = "D" -> "d"
      [] c = "F" -> "f"
      [] c = "R" -> "r"
      [] c = "N" -> "n"
      [] OTHER -> c

toLowerCase(str) == [i \in 1..Len(str) |-> LowerChar(str[i])]

\* String.prototype.endsWith
endsWith(str, suffix) ==
    /\ Len(str) >= Len(suffix)
    /\ SubSeq(str, Len(str) - Len(suffix) + 1, Len(str)) = suffix

\* .replace(/[<>:"/\\|?*]/g, '')
RemoveIllegal(str) ==
    LET Legal(c) == c \notin IllegalChars IN SelectSeq(str, Legal)

\* .replace(/\s+/g, ' '): every maximal run of white space becomes one space
CollapseWhiteSpace(str) ==
    LET Follows(i) == i > 1 /\ str[i - 1] \in WhiteSpace
        marked == [i \in 1..Len(str) |->
                     IF str[i] \notin WhiteSpace THEN str[i]
                     ELSE IF Follows(i) THEN "" ELSE " "]
        Kept(c) == c # ""
    IN SelectSeq(marked, Kept)

\* .trim()
Trim(str) ==
    LET black == { i \in 1..Len(str) : str[i] \notin WhiteSpace }
        first == CHOOSE i \in black : \A j \in black : i <= j
        last == CHOOSE i \in black : \A j \in black : j <= i
    IN IF black = {} THEN <<>> ELSE SubSeq(str, first, last)

\* .substring(0, 200)
Truncate(str) ==
    SubSeq(str, 1, IF Len(str) < MaxFilenameLength THEN Len(str) ELSE MaxFilenameLength)

generateFilename(title) ==
    LET sanitized == Trim(CollapseWhiteSpace(RemoveIllegal(title)))
        truncated == Truncate(sanitized)
        finalName == IF truncated = <<>> THEN DefaultName ELSE truncated
    IN IF endsWith(toLowerCase(finalName), PdfSuffix)
       THEN finalName
       ELSE finalName \o PdfSuffix

InitFilename ==
    /\ InitCore
    /\ upload = NoUpload
    /\ pdf \in { [pc |-> "called", title |-> t, filename |-> <<>>] : t \in Titles(MaxPieces) }

\* the call returns the name
FilenameReturns ==
    /\ pdf.pc = "called"
    /\ pdf' = [pdf EXCEPT !.pc = "returned", !.filename = generateFilename(pdf.title)]
    /\ UNCHANGED <<store, clock, uuids, cancelled, processing, run, ext, ret, handler, upload,
                   faults>>

SpecFilename == InitFilename /\ [][FilenameReturns]_vars

\* ------------------------------------------------- generatePdf on its own
\* Lengths are in hundredths of a point.
MaxImages == 2

\* DEFAULT_OPTIONS.maxRetries of the image downloader
DownloadMaxRetries == 3

A4_HEIGHT == 84189
TITLE_LINE_HEIGHT == 2400
BODY_LINE_HEIGHT == 1600

\* DEFAULT_PDF_OPTIONS.margin and .maxImageWidth
Margin == 5000
MaxImageWidth == 49500

\* what fetch(image.url) does on each attempt
FetchOutcomes == {"ok", "error"}

\* the bytes behind an image url: the type their first bytes announce, what
\* they decode as, whether the canvas can convert them, and their dimensions
ImageBytes ==
    { [magic |-> m, decodes |-> d, converts |-> c, width |-> w[1], height |-> w[2]] :
        m \in {"jpeg", "png", "webp", "unknown"}, d \in {"jpeg", "png", "none"},
        c \in BOOLEAN, w \in {<<40000, 30000>>, <<99000, 40000>>} }

\* one of each kind, of both sizes where the image can be drawn
ImageKinds ==
    { b \in ImageBytes :
        \/ b.magic \in {"jpeg", "png"} /\ b.decodes = b.magic /\ ~b.converts
        \/ b.magic \in {"jpeg", "png"} /\ b.decodes = "none" /\ ~b.converts /\ b.width = 40000
        \/ b.magic = "webp" /\ b.decodes = "none" /\ (b.converts \/ b.width = 40000)
        \/ b.magic = "unknown" /\ b.decodes \in {"png", "none"} /\ ~b.converts
                               /\ b.width = 40000 }

PostImages ==
    { [responses |-> rs, bytes |-> b] :
        rs \in [1..DownloadMaxRetries -> FetchOutcomes], b \in ImageKinds }

\* bytes: null
NoBytes == [magic |-> "none", decodes |-> "none", converts |-> FALSE, width |-> 0, height |-> 0]

\* embedImage returning null
NoImage == [threw |-> FALSE, embedded |-> FALSE, width |-> 0, height |-> 0]

SeqsUpTo(S, n) == UNION { [1..k -> S] : k \in 0..n }

\* 'jpeg' | 'png' | 'webp' | 'unknown', from the first bytes
detectImageType(bytes) == bytes.magic

\* the JPEG bytes the canvas produces, or null
convertWebPToJpeg(webpBytes) ==
    IF webpBytes.converts
    THEN [webpBytes EXCEPT !.magic = "jpeg", !.decodes = "jpeg"]
    ELSE NoBytes

\* downloadImage from attempt `attempt` on
RECURSIVE DownloadLoop(_, _)
DownloadLoop(image, attempt) ==
    IF attempt > DownloadMaxRetries
    THEN [threw |-> FALSE, bytes |-> NoBytes, type |-> "unknown", success |-> FALSE,
          error |-> "Max retries exceeded", requests |-> attempt - 1]
    ELSE IF image.responses[attempt] = "ok"
    THEN LET type == detectImageType(image.bytes)
             converted == convertWebPToJpeg(image.bytes)
             usable == type = "webp" /\ converted # NoBytes
         IN [threw |-> FALSE,
             bytes |-> IF usable THEN converted ELSE image.bytes,
             type |-> IF usable THEN "jpeg" ELSE type,
             success |-> TRUE, error |-> Undefined, requests |-> attempt]
    ELSE IF attempt = DownloadMaxRetries
    THEN [threw |-> FALSE, bytes |-> NoBytes, type |-> "unknown", success |-> FALSE,
          error |-> "HTTP error", requests |-> attempt]
    ELSE DownloadLoop(image, attempt + 1)

\* a downloader that rejects when the last attempt has failed
downloadImageRejects(image) ==
    LET d == DownloadLoop(image, 1)
    IN IF d.success THEN d ELSE [d EXCEPT !.threw = TRUE]

downloadImage(image) == DownloadLoop(image, 1)

\* Promise.all(images.map(downloadImage)): the results, in the order of the images
downloadImages(images) == [i \in DOMAIN images |-> downloadImage(images[i])]

embedJpg(bytes) ==
    IF bytes.decodes = "jpeg"
    THEN [threw |-> FALSE, embedded |-> TRUE, width |-> bytes.width, height |-> bytes.height]
    ELSE [threw |-> TRUE, embedded |-> FALSE, width |-> 0, height |-> 0]

embedPng(bytes) ==
    IF bytes.decodes = "png"
    THEN [threw |-> FALSE, embedded |-> TRUE, width |-> bytes.width, height |-> bytes.height]
    ELSE [threw |-> TRUE, embedded |-> FALSE, width |-> 0, height |-> 0]

\* the embedded image, or null
embedImage(downloadedImage) ==
    IF downloadedImage.bytes = NoBytes THEN NoImage
    ELSE LET bytes == downloadedImage.bytes
             tried ==
                 CASE downloadedImage.type = "jpeg" -> embedJpg(bytes)
                   [] downloadedImage.type = "png" -> embedPng(bytes)
                   [] downloadedImage.type = "webp" -> NoImage
                   [] OTHER -> IF embedJpg(bytes).threw THEN embedPng(bytes)
                               ELSE embedJpg(bytes)
         IN IF tried.threw THEN NoImage ELSE tried

\* the description loop: a new page whenever the next line does not fit
\* `low` is the lowest height at which a line has been drawn
RECURSIVE DrawDescription(_, _, _, _)
DrawDescription(lines, yPosition, pageCount, low) ==
    IF lines = 0 THEN [yPosition |-> yPosition, pageCount |-> pageCount, low |-> low]
    ELSE IF yPosition < Margin + BODY_LINE_HEIGHT
         THEN DrawDescription(lines - 1, A4_HEIGHT - Margin - BODY_LINE_HEIGHT,
                              pageCount + 1, low)
         ELSE DrawDescription(lines - 1, yPosition - BODY_LINE_HEIGHT, pageCount,
                              IF yPosition < low THEN yPosition ELSE low)

\* drawText: the lines of one text, each a line height below the one before,
\* on the page it is given; the height it returns and that of its last line
drawText(lines, y, lineHeight) ==
    [y |-> y - lines * lineHeight, low |-> y - (lines - 1) * lineHeight]

NoDocument ==
    [pageCount |-> 0, imagesIncluded |-> FALSE, failedImageCount |-> 0, filename |-> <<>>]

\* the post: its title, the number of lines its title and description wrap to,
\* and its images
InitPdf ==
    /\ InitCore
    /\ upload = NoUpload
    /\ pdf \in { [pc |-> "called", title |-> <<"a", "/", "b">>, titleLines |-> t,
                  descriptionLines |-> n, images |-> imgs,
                  downloadedImages |-> <<>>, successfulImages |-> <<>>, next |-> 0,
                  yPosition |-> 0, pageCount |-> 0, drawn |-> 0,
                  titleLow |-> A4_HEIGHT, authorLow |-> A4_HEIGHT, bodyLow |-> A4_HEIGHT,
                  result |-> NoDocument] :
                 t \in {1, 35}, n \in {0, 50}, imgs \in SeqsUpTo(PostImages, MaxImages) }

\* generatePdf up to the end of the text: the downloads settle, the first page
\* is added, and title, author and description are drawn
DownloadAndDrawText ==
    /\ pdf.pc = "called"
    /\ LET downloaded == downloadImages(pdf.images)
           Usable(img) == img.success /\ img.bytes # NoBytes
           title == drawText(pdf.titleLines, A4_HEIGHT - Margin, TITLE_LINE_HEIGHT)
           author == drawText(1, title.y - 1000, BODY_LINE_HEIGHT)
           text == DrawDescription(pdf.descriptionLines, author.y - 2000, 1, A4_HEIGHT)
       IN IF \E i \in DOMAIN downloaded : downloaded[i].threw
          THEN pdf' = [pdf EXCEPT !.pc = "threw"]
          ELSE pdf' = [pdf EXCEPT !.pc = "images",
                                  !.downloadedImages = downloaded,
                                  !.successfulImages = SelectSeq(downloaded, Usable),
                                  !.next = 1,
                                  !.yPosition = text.yPosition - 3000,
                                  !.pageCount = text.pageCount,
                                  !.titleLow = title.low,
                                  !.authorLow = author.low,
                                  !.bodyLow = text.low]
    /\ UNCHANGED <<store, clock, uuids, cancelled, processing, run, ext, ret, handler, upload,
                   faults>>

\* one round of the loop over successfulImages
EmbedAndDraw ==
    /\ pdf.pc = "images"
    /\ pdf.next <= Len(pdf.successfulImages)
    /\ LET embeddedImage == embedImage(pdf.successfulImages[pdf.next])
       IN IF ~embeddedImage.embedded
          THEN pdf' = [pdf EXCEPT !.next = @ + 1]
          ELSE LET scaledHeight ==
                       IF embeddedImage.width <= MaxImageWidth
                       THEN embeddedImage.height
                       ELSE (embeddedImage.height * MaxImageWidth) \div embeddedImage.width
                   newPage == pdf.yPosition - scaledHeight < Margin
                   y == IF newPage THEN A4_HEIGHT - Margin ELSE pdf.yPosition
               IN pdf' = [pdf EXCEPT !.next = @ + 1,
                                     !.pageCount = IF newPage THEN @ + 1 ELSE @,
                                     !.yPosition = y - (scaledHeight + 1500),
                                     !.drawn = @ + 1]
    /\ UNCHANGED <<store, clock, uuids, cancelled, processing, run, ext, ret, handler, upload,
                   faults>>

\* footer, save, filename and the returned GeneratedPdf
PdfReturns ==
    /\ pdf.pc = "images"
    /\ pdf.next > Len(pdf.successfulImages)
    /\ LET Failed(img) == ~img.success
       IN pdf' = [pdf EXCEPT
                    !.pc = "returned",
                    !.result = [pageCount |-> pdf.pageCount,
                                imagesIncluded |-> Len(pdf.successfulImages) > 0,
                                failedImageCount |->
                                    Len(SelectSeq(pdf.downloadedImages, Failed)),
                                filename |-> generateFilename(pdf.title)]]
    /\ UNCHANGED <<store, clock, uuids, cancelled, processing, run, ext, ret, handler, upload,
                   faults>>

NextPdf == DownloadAndDrawText \/ EmbedAndDraw \/ PdfReturns

SpecPdf == InitPdf /\ [][NextPdf]_vars

\* ------------------------------------------------- wrapText on its own
\* Text is a sequence of characters; widths are in units of the narrowest one.
MaxChars == 5

\* maxWidth, the content width
MaxLineWidth == 3

TextChars == {"a", "W", "M", " ", "\n"}

\* the width the font gives a character at the font size in use; "M" alone is
\* wider than a line
CharWidth(char) ==
    CASE char = "W" -> 2
      [] char = "M" -> MaxLineWidth + 1
      [] OTHER -> 1

\* font.widthOfTextAtSize(text, fontSize)
RECURSIVE widthOfTextAtSize(_)
widthOfTextAtSize(text) ==
    IF text = <<>> THEN 0 ELSE CharWidth(Head(text)) + widthOfTextAtSize(Tail(text))

\* text.split('\n'), `current` the paragraph being read
RECURSIVE SplitLines(_, _)
SplitLines(text, current) ==
    IF text = <<>> THEN <<current>>
    ELSE IF Head(text) = "\n" THEN <<current>> \o SplitLines(Tail(text), <<>>)
    ELSE SplitLines(Tail(text), Append(current, Head(text)))

\* a wrapping loop that drops the character at which it breaks the line
RECURSIVE WrapLoopDropsChar(_, _, _)
WrapLoopDropsChar(chars, currentLine, lines) ==
    IF chars = <<>>
    THEN IF currentLine # <<>> THEN Append(lines, currentLine) ELSE lines
    ELSE LET testLine == Append(currentLine, Head(chars))
         IN IF widthOfTextAtSize(testLine) > MaxLineWidth /\ currentLine # <<>>
            THEN WrapLoopDropsChar(Tail(chars), <<>>, Append(lines, currentLine))
            ELSE WrapLoopDropsChar(Tail(chars), testLine, lines)

\* `for (const char of paragraph)` and the push after it
RECURSIVE WrapLoop(_, _, _)
WrapLoop(chars, currentLine, lines) ==
    IF chars = <<>>
    THEN IF currentLine # <<>> THEN Append(lines, currentLine) ELSE lines
    ELSE LET testLine == Append(currentLine, Head(chars))
         IN IF widthOfTextAtSize(testLine) > MaxLineWidth /\ currentLine # <<>>
            THEN WrapLoop(Tail(chars), <<Head(chars)>>, Append(lines, currentLine))
            ELSE WrapLoop(Tail(chars), testLine, lines)

\* the lines one paragraph adds
WrapParagraph(paragraph) ==
    IF Trim(paragraph) = <<>> THEN << <<>> >> ELSE WrapLoop(paragraph, <<>>, <<>>)

InitWrap ==
    /\ InitCore
    /\ upload = NoUpload
    /\ pdf \in { [pc |-> "called", text |-> t, paragraphs |-> <<>>, lines |-> <<>>,
                  paragraph |-> <<>>, produced |-> <<>>, wrapped |-> 0] :
                 t \in SeqsUpTo(TextChars, MaxChars) }

\* wrapText up to its loop over the paragraphs
WrapTextSplits ==
    /\ pdf.pc = "called"
    /\ pdf' = [pdf EXCEPT !.pc = "wrapping", !.paragraphs = SplitLines(pdf.text, <<>>)]
    /\ UNCHANGED <<store, clock, uuids, cancelled, processing, run, ext, ret, handler, upload,
                   faults>>

\* one round of `for (const paragraph of paragraphs)`
WrapNextParagraph ==
    /\ pdf.pc = "wrapping"
    /\ pdf.paragraphs # <<>>
    /\ LET paragraph == Head(pdf.paragraphs)
           produced == WrapParagraph(paragraph)
       IN pdf' = [pdf EXCEPT !.paragraphs = Tail(@),
                             !.lines = @ \o produced,
                             !.paragraph = paragraph,
                             !.produced = produced,
                             !.wrapped = @ + 1]
    /\ UNCHANGED <<store, clock, uuids, cancelled, processing, run, ext, ret, handler, upload,
                   faults>>

\* `return lines`
WrapTextReturns ==
    /\ pdf.pc = "wrapping"
    /\ pdf.paragraphs = <<>>
    /\ pdf' = [pdf EXCEPT !.pc = "returned"]
    /\ UNCHANGED <<store, clock, uuids, cancelled, processing, run, ext, ret, handler, upload,
                   faults>>

NextWrap == WrapTextSplits \/ WrapNextParagraph \/ WrapTextReturns

SpecWrap == InitWrap /\ [][NextWrap]_vars

\* ------------------------------------------------- properties of uploadToDrive
AuthStatus(resp) == ~resp.net /\ resp.status \in {"401", "403"}

\* the attempts a settled call has made are 1..requests, in order
AuthAttempts ==
    { i \in 1..upload.result.requests : AuthStatus(upload.responses[i]) }

\* C10, as stated: a call in which an attempt met HTTP 401 or 403 made exactly
\* one upload request and no backoff wait, and returned a failure carrying
\* that error.
C10_OneRequest ==
    (upload.pc = "settled" /\ AuthAttempts # {}) =>
        /\ upload.result.requests = 1
        /\ upload.result.waits = <<>>
        /\ ~upload.result.success
        /\ upload.result.error = performUpload(upload.responses[1]).message

\* C10, amended: the attempt that meets HTTP 401 or 403 is the last one of the
\* call, whatever maxRetries is: attempt i is followed by no wait and no
\* request (i requests, i - 1 waits, one after each earlier failed attempt),
\* and the call returns a failure carrying that attempt's error. It is the
\* only request when it is the first attempt.
C10_AuthStops ==
    upload.pc = "settled" =>
        \A i \in AuthAttempts :
            /\ upload.result.requests = i
            /\ Len(upload.result.waits) = i - 1
            /\ ~upload.result.success
            /\ upload.result.error = performUpload(upload.responses[i]).message
            /\ Includes(upload.result.error, upload.responses[i].status)

\* C10, witness: a 500 answer, a wait of 2000 ms, then a 403 answer ends the call
C10_Witness ==
    /\ upload.pc = "settled"
    /\ upload.maxRetries = 3
    /\ upload.responses[1].status = "500"
    /\ upload.responses[2].status = "403"
    /\ upload.result.requests = 2
    /\ upload.result.waits = <<2000>>
    /\ ~upload.result.success

\* ------------------------------------------------ properties of the queue store
Range(seq) == { seq[i] : i \in DOMAIN seq }

\* the stored item with this id; the queue holds it in the states that ask
ItemOf(queue, itemId) ==
    queue.items[FindIndex({ i \in DOMAIN queue.items : queue.items[i].id = itemId })]

WithPostId(queue, post) == { i \in DOMAIN queue.items : queue.items[i].postId = post }

\* C1: the stored queue always has totalItems equal to the sum of the four
\* counts, and each count equal to the number of items with that status.
C1_TotalsMatchItems ==
    /\ store.totalItems = store.pendingItems + store.processingItems
                          + store.completedItems + store.failedItems
    /\ store.pendingItems = CountStatus(store.items, "pending")
    /\ store.processingItems = CountStatus(store.items, "processing")
    /\ store.completedItems = CountStatus(store.items, "completed")
    /\ store.failedItems = CountStatus(store.items, "failed")

\* C1, witness: removeFromQueue has returned and left a failed item behind
C1_Witness ==
    /\ ret.op = "removeFromQueue"
    /\ store.totalItems = 1
    /\ store.failedItems = 1

\* C2: when addToQueue returns an item whose postId the stored queue already
\* held, the returned item is that stored item, the queue is left as it was,
\* and it holds exactly one item with that postId.
C2_DuplicateReturnsExisting ==
    [][ (ret'.op = "addToQueue" /\ WithPostId(store, ret'.items[1].postId) # {}) =>
            /\ store' = store
            /\ ret'.items[1] \in Range(store.items)
            /\ Cardinality(WithPostId(store', ret'.items[1].postId)) = 1 ]_vars

\* C2, witness: addToQueue has returned an existing item that is completed
C2_Witness ==
    /\ ret.op = "addToQueue"
    /\ ret.items[1].status = "completed"
    /\ ret.items[1].startedAt # NullTime
    /\ ret.items[1] \in Range(store.items)
    /\ Cardinality(WithPostId(store, ret.items[1].postId)) = 1

\* ------------------------------------------------ properties of processQueue
Terminal == {"completed", "failed"}

\* the stored item of snapshot position i of invocation r
Stored(r, i) == ItemOf(store, run[r].pendingItems[i].id)

\* snapshot positions of invocation r whose stored item has status s
SnapshotWith(r, s) == { i \in DOMAIN run[r].pendingItems : Stored(r, i).status = s }

\* C3: while isProcessing() is true no further processQueue invocation starts
\* a run, and the cancellation and processing flags do not change by one.
C3_SecondRunRejected ==
    [][ \A r \in Runs :
          (processing /\ Free(r)) =>
              /\ run'[r].pc \in {"idle", "returned", "rejected"}
              /\ (run'[r] # run[r] => cancelled' = cancelled) ]_vars

\* C4: a run with continueOnError = true and no cancel() returns with every
\* snapshot item completed or failed (failed exactly when all its maxRetries
\* attempts threw), completed = total, percentage = 100 and successCount,
\* failedCount equal to the numbers of snapshot items completed and failed.
C4_EveryItemSettled ==
    \A r \in Runs :
        (run[r].pc = "returned" /\ run[r].continueOnError /\ run[r].cancelAt = -1) =>
            /\ Len(run[r].history) = Len(run[r].pendingItems)
            /\ \A i \in DOMAIN run[r].pendingItems :
                  /\ Stored(r, i).status \in Terminal
                  /\ Stored(r, i).status = "failed"
                        <=> run[r].history[i].throws = run[r].maxRetries
                  /\ Stored(r, i).status = "completed"
                        => run[r].history[i].attempts = run[r].history[i].throws + 1
            /\ run[r].progress.completed = run[r].progress.total
            /\ run[r].progress.total = Len(run[r].pendingItems)
            /\ run[r].progress.percentage = 100
            /\ run[r].progress.successCount = Cardinality(SnapshotWith(r, "completed"))
            /\ run[r].progress.failedCount = Cardinality(SnapshotWith(r, "failed"))
            /\ run[r].lastReport = run[r].progress

\* C4, witness: of two items the first failed after two throwing attempts and
\* the second completed on its second attempt
C4_Witness ==
    /\ run[1].pc = "returned"
    /\ run[1].continueOnError
    /\ run[1].cancelAt = -1
    /\ run[1].maxRetries = 2
    /\ Len(run[1].pendingItems) = 2
    /\ Stored(1, 1).status = "failed"
    /\ Stored(1, 2).status = "completed"
    /\ run[1].history[2].throws = 1
    /\ run[1].progress.percentage = 100

\* snapshot position i of invocation r was processed by it and is stored failed
FailedAt(r, i) ==
    /\ i \in 1..Len(run[r].history)
    /\ Stored(r, i).status = "failed"

\* C5, as stated: when a run with continueOnError = false (and at least one
\* attempt per item) returns, every snapshot item after one that failed in it
\* is pending with startedAt null.
C5_LaterItemsNeverStarted ==
    \A r \in Runs :
        (run[r].pc = "returned" /\ ~run[r].continueOnError /\ run[r].maxRetries >= 1) =>
            \A i, j \in DOMAIN run[r].pendingItems :
                (FailedAt(r, i) /\ i < j) =>
                    /\ Stored(r, j).status = "pending"
                    /\ Stored(r, j).startedAt = NullTime

\* C5, amended: when a run with continueOnError = false returns, the item that
\* failed in it is the last one it processed, and every later snapshot item
\* is stored exactly as the snapshot took it: pending, with the startedAt it
\* had, which is null unless retryFailedItems had reset the item before.
C5_LaterItemsUntouched ==
    \A r \in Runs :
        (run[r].pc = "returned" /\ ~run[r].continueOnError) =>
            \A i, j \in DOMAIN run[r].pendingItems :
                (FailedAt(r, i) /\ i < j) =>
                    /\ Len(run[r].history) = i
                    /\ Stored(r, j) = run[r].pendingItems[j]
                    /\ Stored(r, j).status = "pending"
                    /\ Stored(r, j).retryCount = 0 => Stored(r, j).startedAt = NullTime

\* C5, witness: the first of two items failed after two attempts, the run
\* stopped, and the second item was never started
C5_Witness ==
    /\ run[1].pc = "returned"
    /\ ~run[1].continueOnError
    /\ run[1].maxRetries = 2
    /\ Len(run[1].pendingItems) = 2
    /\ FailedAt(1, 1)
    /\ run[1].history[1].throws = 2
    /\ Stored(1, 2).status = "pending"
    /\ Stored(1, 2).startedAt = NullTime

\* cancel() came while invocation r had snapshot item k in hand, k not the last
CancelledDuring(r, k) ==
    /\ run[r].pc = "returned"
    /\ run[r].cancelAt = k
    /\ k \in 1..(Len(run[r].pendingItems) - 1)

\* C6, as stated: after cancel() during item k < N a run (with at least one
\* attempt per item) returns cancelled = true and phase = complete, items 1..k are completed or failed, and items
\* k+1..N are pending.
C6_CancelReported ==
    \A r \in Runs : \A k \in DOMAIN run[r].pendingItems :
        (CancelledDuring(r, k) /\ run[r].maxRetries >= 1) =>
            /\ run[r].progress.cancelled
            /\ run[r].progress.phase = "complete"
            /\ \A i \in 1..k : Stored(r, i).status \in Terminal
            /\ \A i \in (k + 1)..Len(run[r].pendingItems) : Stored(r, i).status = "pending"

\* C6, amended: after cancel() during item k < N the run returns phase =
\* complete, items 1..k are completed or failed, items k+1..N were never
\* started and are stored as the snapshot took them, and cancelled = true
\* unless item k failed in a run with continueOnError = false, which stops
\* at the failure before it looks at the cancellation flag.
C6_CancelStopsAtBoundary ==
    \A r \in Runs : \A k \in DOMAIN run[r].pendingItems :
        CancelledDuring(r, k) =>
            /\ run[r].progress.phase = "complete"
            /\ run[r].progress.cancelled
                  <=> ~(FailedAt(r, k) /\ ~run[r].continueOnError)
            /\ Len(run[r].history) = k
            /\ \A i \in 1..k : Stored(r, i).status \in Terminal
            /\ \A i \in (k + 1)..Len(run[r].pendingItems) :
                  /\ Stored(r, i).status = "pending"
                  /\ Stored(r, i) = run[r].pendingItems[i]

\* C6, witness: cancel() during the first of two items, which then completed;
\* the run returned cancelled with the second item pending
C6_Witness ==
    /\ CancelledDuring(1, 1)
    /\ run[1].progress.cancelled
    /\ run[1].progress.completed = 1
    /\ Stored(1, 1).status = "completed"
    /\ Stored(1, 2).status = "pending"

\* C7: when getPendingItems resolves with no pending item, processQueue
\* returns at once: it has made exactly one report, with phase = complete,
\* percentage = 100 and total = 0, the stored queue is as it was, and
\* isProcessing() is false.
C7_EmptyRunReportsOnce ==
    [][ \A r \in Runs :
          (run[r].pc = "getPendingItems" /\ run'[r].pc # "getPendingItems"
           /\ PendingOf(store) = <<>>) =>
              /\ run'[r].pc = "returned"
              /\ run'[r].reports = 1
              /\ run'[r].lastReport.phase = "complete"
              /\ run'[r].lastReport.percentage = 100
              /\ run'[r].lastReport.total = 0
              /\ run'[r].progress = run'[r].lastReport
              /\ store' = store
              /\ ~processing' ]_vars

\* C7, witness: a run over a queue that holds items, none of them pending, has
\* returned after its one report
C7_Witness ==
    /\ run[1].pc = "returned"
    /\ run[1].pendingItems = <<>>
    /\ run[1].reports = 1
    /\ run[1].lastReport.percentage = 100
    /\ store.totalItems > 0
    /\ ~processing

\* C8: no processQueue invocation rejects.
C8_NeverRejects == \A r \in Runs : run[r].pc # "rejected"

\* C9: once the token request for an item has failed, the item is not
\* attempted again: what follows is the write of its failed status, after
\* exactly one token request, with no wait, render or token request between.
C9_TokenFailureNotRetried ==
    \A r \in Runs :
        run[r].tokenFailed =>
            /\ run[r].tokenRequests = 1
            /\ \/ run[r].pc = "returned"
               \/ /\ run[r].pc \in {"updateItemStatus", "saveQueue"}
                  /\ run[r].call.site = "final"
                  /\ run[r].call.status = "failed"

\* an attempt that fails with an error that is not of the authorization class
NonAuthFailure(resp) == resp.net \/ resp.status \notin {"200", "401", "403"}

\* the waits of a call whose first n attempts failed and were retried
Backoff(n) == [i \in 1..n |-> (2 ^ i) * 1000]

\* the tail of message msg is the message part
EndsWith(msg, part) ==
    /\ Len(part) <= Len(msg)
    /\ SubSeq(msg, Len(msg) - Len(part) + 1, Len(msg)) = part

\* C11: a call with maxRetries = n >= 1 whose attempts all fail with a
\* non-authorization error makes n requests, waits 2^attempt seconds after
\* every failed attempt but the last, and returns a failure carrying the last
\* attempt's error; a call whose attempt k <= n is the first to succeed (the
\* earlier ones failing likewise) makes k requests and returns the success
\* result with the remote id.
C11_RetriesEveryFailure ==
    upload.pc = "settled" =>
        LET n == upload.maxRetries
            res == upload.result
        IN /\ (n >= 1 /\ \A i \in 1..n : NonAuthFailure(upload.responses[i])) =>
                 /\ res.requests = n
                 /\ res.waits = Backoff(n - 1)
                 /\ ~res.success
                 /\ EndsWith(res.error, performUpload(upload.responses[n]).message)
           /\ \A k \in 1..n :
                 (/\ upload.responses[k].status = "200"
                  /\ \A i \in 1..(k - 1) : NonAuthFailure(upload.responses[i])) =>
                     /\ res.requests = k
                     /\ res.waits = Backoff(k - 1)
                     /\ res.success
                     /\ res.fileId = upload.responses[k].body

\* the items are in ascending addedAt order
Ascending(items) ==
    \A i, j \in DOMAIN items : i < j => items[i].addedAt <= items[j].addedAt

\* C12: the stored item list, hence what getPendingItems returns, is in
\* ascending addedAt order, the snapshot of every run is, and a run goes
\* through its snapshot in that order: the items before the one in hand are
\* completed or failed and the items after it are still pending.
C12_EnqueueOrder ==
    /\ Ascending(store.items)
    /\ Ascending(PendingOf(store))
    /\ \A r \in Runs :
          /\ Ascending(run[r].pendingItems)
          /\ \A i \in DOMAIN run[r].pendingItems :
                /\ i < run[r].item => Stored(r, i).status \in Terminal
                /\ i > run[r].item => Stored(r, i).status = "pending"

\* C12, witness: a run has reached the second item of its snapshot, behind a
\* first item that failed in an earlier run and was reset where it stood
C12_Witness ==
    /\ run[1].pc = "generatePdf"
    /\ run[1].item = 2
    /\ Len(run[1].pendingItems) = 2
    /\ run[1].pendingItems[1].retryCount = 1
    /\ run[1].pendingItems[2].retryCount = 0
    /\ run[1].pendingItems[1].addedAt < run[1].pendingItems[2].addedAt
    /\ Stored(1, 1).status \in Terminal
    /\ Stored(1, 2).status = "processing"

\* C13: when retryFailedItems returns, every item that was failed is pending
\* with error null and retryCount one higher and is otherwise as it was,
\* every other item is as it was, the list has its length and order, and the
\* value returned is the number of items that were failed.
C13_RetryResetsFailedOnly ==
    [][ ret'.op = "retryFailedItems" =>
            /\ DOMAIN store'.items = DOMAIN store.items
            /\ \A i \in DOMAIN store.items :
                  IF store.items[i].status = "failed"
                  THEN /\ store'.items[i].status = "pending"
                       /\ store'.items[i].error = Null
                       /\ store'.items[i].retryCount = store.items[i].retryCount + 1
                       /\ store'.items[i] =
                             [store.items[i] EXCEPT !.status = "pending", !.error = Null,
                                                    !.retryCount = @ + 1]
                  ELSE store'.items[i] = store.items[i]
            /\ ret'.count = CountStatus(store.items, "failed") ]_vars

\* C13, witness: retryFailedItems has reset one item and left a completed one
C13_Witness ==
    /\ ret.op = "retryFailedItems"
    /\ ret.count = 1
    /\ Len(store.items) = 2
    /\ store.items[1].status = "completed"
    /\ store.items[2].status = "pending"
    /\ store.items[2].retryCount = 1
    /\ store.items[2].error = Null
    /\ store.items[2].startedAt # NullTime

\* C14: an item that a run has marked failed has a stored error that is not
\* null, whatever maxRetries is, and the error written is the message of the
\* last attempt that threw.
C14_FailedItemHasError ==
    \A r \in Runs :
        /\ \A i \in 1..Len(run[r].history) :
              Stored(r, i).status = "failed" =>
                  Stored(r, i).error \notin {Null, Undefined}
        /\ (run[r].pc = "saveQueue" /\ run[r].call.site = "final"
            /\ run[r].call.status = "failed") =>
               ItemOf(run[r].queue, run[r].pendingItems[run[r].item].id).error
                   = run[r].lastError

\* the waits after n failed attempts that were each followed by another
RetryWaits(n) == [i \in 1..n |-> 1000 * i]

\* invocation r is about to write the final status of the item in hand
AtFinalWrite(r) == run[r].pc = "updateItemStatus" /\ run[r].call.site = "final"

\* C15: an item's pipeline runs at most maxRetries times; the item is written
\* completed right after its first attempt that did not throw, failed only
\* after maxRetries attempts that all threw, and the waits are 1000 ms times
\* the attempt number after each failed attempt but the last possible one.
C15_AtMostMaxRetriesAttempts ==
    \A r \in Runs :
        /\ run[r].renders <= run[r].maxRetries
        /\ AtFinalWrite(r) =>
              IF run[r].call.status = "completed"
              THEN /\ run[r].success
                   /\ run[r].renders = run[r].throws + 1
                   /\ run[r].waits = RetryWaits(run[r].throws)
              ELSE /\ run[r].call.status = "failed"
                   /\ run[r].throws = run[r].maxRetries
                   /\ run[r].renders = run[r].maxRetries
                   /\ Len(run[r].waits) = Len(RetryWaits(run[r].maxRetries - 1))
                   /\ run[r].waits = RetryWaits(Len(run[r].waits))

\* C15, witness: the first attempt threw, the run waited 1000 ms, the second
\* attempt succeeded and the item is about to be written completed
C15_Witness ==
    /\ AtFinalWrite(1)
    /\ run[1].call.status = "completed"
    /\ run[1].maxRetries = 2
    /\ run[1].throws = 1
    /\ run[1].renders = 2
    /\ run[1].waits = <<1000>>

\* the status that the items of a queue call for
StatusOfItems(items) ==
    IF items = <<>> THEN "empty"
    ELSE IF CountStatus(items, "processing") > 0 THEN "processing"
    ELSE IF CountStatus(items, "pending") > 0 THEN "pending"
    ELSE IF CountStatus(items, "failed") > 0 THEN "partial_failure"
    ELSE "completed"

\* C16: getQueueStatus of the stored queue is the status its items call for
\* (empty, else processing, else pending, else partial_failure, else
\* completed), in every state and in what handleGetQueueStatus returns; after
\* a run that left every snapshot item terminal and one failed, with nothing
\* pending, it is partial_failure.
C16_StatusFollowsItems ==
    /\ getQueueStatus(store) = StatusOfItems(store.items)
    /\ ret.op = "getQueueStatus" => ret.status = StatusOfItems(store.items)
    /\ \A r \in Runs :
          (/\ run[r].pc = "returned"
           /\ \A i \in DOMAIN store.items : store.items[i].status \in Terminal
           /\ SnapshotWith(r, "failed") # {}) =>
              getQueueStatus(store) = "partial_failure"

\* C16, witness: handleGetQueueStatus has answered partial_failure for a queue
\* with one completed and one failed item
C16_Witness ==
    /\ ret.op = "getQueueStatus"
    /\ ret.status = "partial_failure"
    /\ store.completedItems = 1
    /\ store.failedItems = 1

\* ------------------------------------------------- properties of generateFilename
\* C17: for every title, the name generateFilename returns contains none of
\* the characters < > : " / \ | ? *, has a non-empty base name in front of its
\* suffix, and ends in exactly one .pdf suffix in any letter case: it does not
\* end in .pdf.pdf.
C17_SafeFilename ==
    pdf.pc = "returned" =>
        LET name == toLowerCase(pdf.filename)
        IN /\ \A i \in DOMAIN name : name[i] \notin IllegalChars
           /\ endsWith(name, PdfSuffix)
           /\ Len(name) > Len(PdfSuffix)
           /\ ~endsWith(name, PdfSuffix \o PdfSuffix)

\* ------------------------------------------------- properties of generatePdf
\* the image's download failed on every attempt
DownloadFails(image) == \A a \in 1..DownloadMaxRetries : image.responses[a] = "error"

\* the image was downloaded and cannot be drawn: a format that is not
\* supported, or bytes that do not decode
CannotEmbed(image) ==
    /\ ~DownloadFails(image)
    /\ \/ image.bytes.magic = "webp" /\ ~image.bytes.converts
       \/ image.bytes.magic # "webp" /\ image.bytes.decodes = "none"

Ids(queue) == { queue.items[i].id : i \in DOMAIN queue.items }

\* the step is the saveQueue of an outside call
OutsideWrite == ext.op # "none" /\ ext'.op = "none" /\ store' = ext.queue

\* C19: no write of the queue undoes what another operation has written since
\* the writer read the queue. The saveQueue of addToQueue keeps every stored
\* item as the orchestrator last wrote it and adds the new item; that of
\* removeFromQueue changes no item it keeps; the saveQueue of updateItemStatus
\* neither drops an item enqueued nor brings back an item removed in the
\* meantime.
C19_NoUpdateLost ==
    [][ store' # store =>
          IF OutsideWrite
          THEN /\ \A i \in DOMAIN store.items, j \in DOMAIN store'.items :
                     store'.items[j].id = store.items[i].id =>
                         store'.items[j] = store.items[i]
               /\ ext.op = "addToQueue" =>
                     Ids(store') = Ids(store) \cup { ext.items[1].id }
               /\ ext.op = "removeFromQueue" => Ids(store') \subseteq Ids(store)
          ELSE Ids(store') = Ids(store) ]_vars

\* the runs that have started and not yet returned
ActiveRuns == { r \in Runs : ~Free(r) }

\* the snapshot items a run has in hand or still in front of it
InHand(r) ==
    IF Free(r) THEN {}
    ELSE { run[r].pendingItems[i].id :
             i \in { j \in DOMAIN run[r].pendingItems : j >= run[r].item } }

\* C20: of two PROCESS_QUEUE requests handled concurrently at most one starts a
\* run: a handler that has passed its isProcessing() check does not call
\* processQueue while another run is active, so two runs are never active
\* together and never hold the same item.
C20_AtMostOneRun ==
    /\ Cardinality(ActiveRuns) <= 1
    /\ \A r, q \in Runs : r # q => InHand(r) \cap InHand(q) = {}

\* C21: when processQueue returns, no item of its snapshot is stored with
\* status processing, and every item the run took up is completed or failed,
\* whether or not cancel() was called meanwhile and whatever continueOnError is.
C21_NoItemLeftProcessing ==
    \A r \in Runs :
        run[r].pc = "returned" =>
            /\ SnapshotWith(r, "processing") = {}
            /\ \A i \in 1..Len(run[r].history) : Stored(r, i).status \in Terminal

\* C21, witness: cancel() was called while the first of two items was being
\* rendered, after it had been written as processing; the run returned with
\* that item completed
C21_Witness ==
    /\ CancelledDuring(1, 1)
    /\ run[1].renders = 1
    /\ Stored(1, 1).status = "completed"
    /\ Stored(1, 1).startedAt # NullTime

\* snapshot item j of invocation r has been written by the run
Started(r, j) == Stored(r, j) # run[r].pendingItems[j]

UploadAuthFailed(r) ==
    /\ run[r].uploadCalls >= 1
    /\ run[r].lastError # Undefined
    /\ \E resp \in RunUploadResponses :
          /\ AuthStatus(resp)
          /\ run[r].lastError = performUpload(resp).message

\* C23: once an item's upload has failed with an authorization error, the
\* item is not attempted again: exactly one render and one uploadToDrive call
\* have been made for it, and what follows is the write of its failed status.
C23_AuthFailureNotRetried ==
    \A r \in Runs :
        (run[r].pc # "idle" /\ run[r].shouldUpload /\ UploadAuthFailed(r)) =>
            /\ run[r].renders = 1
            /\ run[r].uploadCalls = 1
            /\ \/ run[r].pc = "returned"
               \/ /\ run[r].pc \in {"updateItemStatus", "saveQueue"}
                  /\ run[r].call.site = "final"
                  /\ run[r].call.status = "failed"

\* ------------------------------------------------- properties of the reports
\* p is x = num / den * 100 rounded to the nearest integer, halves upwards
IsRounded(p, num, den) ==
    /\ 2 * p * den - den <= 200 * num
    /\ 200 * num < 2 * p * den + den

\* what C24 says of one snapshot
Consistent(snapshot) ==
    /\ snapshot.completed = snapshot.successCount + snapshot.failedCount
    /\ 0 <= snapshot.completed
    /\ snapshot.completed <= snapshot.total
    /\ IsRounded(snapshot.percentage, snapshot.completed, snapshot.total)

\* C24: every snapshot given to the callback in a run with total > 0 has
\* completed = successCount + failedCount, 0 <= completed <= total and
\* percentage = round(completed / total * 100); completed and percentage do
\* not decrease from one callback to the next; and the last callback of a run
\* that has returned had phase = complete and currentItem = null.
C24_ReportsConsistent ==
    \A r \in Runs :
        LET recent == run[r].recent
        IN /\ \A i \in DOMAIN recent : recent[i].total > 0 => Consistent(recent[i])
           /\ \A i \in DOMAIN recent :
                 i > 1 => /\ recent[i - 1].completed <= recent[i].completed
                          /\ recent[i - 1].percentage <= recent[i].percentage
           /\ run[r].pc = "returned" =>
                 /\ run[r].reports >= 1
                 /\ recent[Len(recent)].phase = "complete"
                 /\ recent[Len(recent)].currentItem = NoTitle

\* C24, witness: a run over two items has returned; its latest callbacks saw
\* completed go from 1 to 2 and percentage from 50 to 100, with one item
\* failed and one completed
C24_Witness ==
    /\ run[1].pc = "returned"
    /\ Len(run[1].recent) = MaxReportsKept
    /\ \E i \in 1..(MaxReportsKept - 1) :
          /\ run[1].recent[i].completed = 1
          /\ run[1].recent[i].percentage = 50
          /\ run[1].recent[i + 1].completed = 2
          /\ run[1].recent[i + 1].percentage = 100
    /\ run[1].lastReport.successCount = 1
    /\ run[1].lastReport.failedCount = 1

\* ------------------------------------------------- properties of startedAt
\* C25: an item enters the queue with startedAt null; startedAt is set by the
\* write that first makes the item processing and by no other write; once set
\* it keeps its value, through later attempts, partial results, the final
\* status, retryFailedItems and the runs after it.
C25_StartedAtSetOnce ==
    [][ \A j \in DOMAIN store'.items :
          LET new == store'.items[j]
              old == ItemOf(store, new.id)
          IN IF new.id \in Ids(store)
             THEN /\ old.startedAt # NullTime => new.startedAt = old.startedAt
                  /\ (old.startedAt = NullTime /\ new.startedAt # NullTime) =>
                        /\ old.status = "pending"
                        /\ new.status = "processing"
                  /\ new.status = "processing" => new.startedAt # NullTime
             ELSE new.startedAt = NullTime ]_vars

\* C25, witness: an item that failed in one run and was reset by
\* retryFailedItems is processing again in a later run, with a startedAt
\* older than the latest time recorded since
C25_Witness ==
    /\ ~Free(1)
    /\ \E i \in DOMAIN store.items :
          /\ store.items[i].retryCount = 1
          /\ store.items[i].status = "processing"
          /\ store.items[i].startedAt # NullTime
          /\ store.items[i].startedAt < clock

\* the id of the item the updateItemStatus call of invocation r is about
Target(r) == run[r].pendingItems[run[r].item].id

\* C26: an updateItemStatus whose item is not in the stored queue changes
\* nothing and raises no error, at its getQueue and at its saveQueue alike, so
\* the orchestrator's updates never put back an item that removeFromQueue or
\* clearQueue has taken out of the queue.
C26_RemovedItemStaysRemoved ==
    [][ \A r \in Runs :
          (/\ run[r].pc \in {"updateItemStatus", "saveQueue"}
           /\ run'[r] # run[r]
           /\ Target(r) \notin Ids(store)) =>
              /\ store' = store
              /\ run'[r].pc # "rejected" ]_vars

\* C27: the failedImageCount of the returned document is the number of the
\* post's images that were not drawn, whatever kept them out (download,
\* format, decoding), and imagesIncluded is true only if an image was drawn.
C27_FailedImagesCounted ==
    pdf.pc = "returned" =>
        /\ pdf.result.failedImageCount = Len(pdf.images) - pdf.drawn
        /\ pdf.result.imagesIncluded => pdf.drawn >= 1

\* ------------------------------------------------- properties of wrapText
RECURSIVE Concat(_)
Concat(lines) == IF lines = <<>> THEN <<>> ELSE Head(lines) \o Concat(Tail(lines))

\* C28: the lines wrapText makes of a paragraph that is not white space only
\* give back the paragraph when concatenated, and each of them is no wider
\* than the content width or is a single character; a paragraph of white
\* space only (or empty) makes one empty line.
C28_WrapKeepsText ==
    (pdf.pc \in {"wrapping", "returned"} /\ pdf.wrapped >= 1) =>
        IF \A i \in DOMAIN pdf.paragraph : pdf.paragraph[i] \in WhiteSpace
        THEN pdf.produced = << <<>> >>
        ELSE /\ Concat(pdf.produced) = pdf.paragraph
             /\ \A i \in DOMAIN pdf.produced :
                   \/ widthOfTextAtSize(pdf.produced[i]) <= MaxLineWidth
                   \/ Len(pdf.produced[i]) = 1

\* C28, witness: a paragraph was broken into lines, one of them a single
\* character wider than the content width, after a paragraph of white space
C28_Witness ==
    /\ pdf.pc = "returned"
    /\ pdf.wrapped = 2
    /\ pdf.lines[1] = <<>>
    /\ Len(pdf.produced) >= 2
    /\ \E i \in DOMAIN pdf.produced :
          /\ Len(pdf.produced[i]) = 1
          /\ widthOfTextAtSize(pdf.produced[i]) > MaxLineWidth

\* ------------------------------------------------- properties of the text layout
\* C29: every line of text is drawn where at least one line height was left
\* above the bottom margin: the lowest title line, the author line and the
\* lowest body line are each at least their line height above the margin.
C29_TextAboveMargin ==
    pdf.pc \in {"images", "returned"} =>
        /\ pdf.titleLow >= Margin + TITLE_LINE_HEIGHT
        /\ pdf.authorLow >= Margin + BODY_LINE_HEIGHT
        /\ pdf.bodyLow >= Margin + BODY_LINE_HEIGHT

\* ------------------------------------------------- properties of isProcessing
\* C30: isProcessing() is true exactly while a run is active: true from the
\* call of processQueue on, and false once the run has ended, whether it
\* returned or a collaborator call failed.
C30_ProcessingIffActive == processing <=> ActiveRuns # {}

====
